---- MODULE Spec2Model ----
(***************************************************************************)
(* A model of the api crate: the in-memory TodoStore (store.rs) accessed   *)
(* by concurrent request handlers, the UserRepository (repository/user.rs) *)
(* issuing single SQL statements against the users table, the              *)
(* AttendanceEventRepository (repository/attendance_event.rs) appending to *)
(* the attendance_events table, and the payload validation (models.rs,     *)
(* handlers/user.rs) and error responses (error.rs) at the request and     *)
(* response boundary.                                                      *)
(***************************************************************************)
EXTENDS Integers, Sequences, FiniteSets, TLC

(* ------------------------------ bounds --------------------------------- *)

\* Number of request-handling threads sharing the one TodoStore.
NumThreads == 2

\* Total number of TodoStore calls the threads may start.
MaxCalls == 3

\* The same, where the scheduler is fair and whole behaviours are examined.
MaxFairCalls == 2

\* Total number of UserRepository calls and user requests.
MaxUserCalls == 3

\* Largest reading of the database server's clock.
MaxClock == 2

\* Total number of AttendanceEventRepository create calls.
MaxEventCalls == 2

\* Number of create calls that may be under way at once.
MaxPending == 1

Threads == 1..NumThreads

\* Holder value of a std::sync::Mutex nobody holds.
Free == 0

\* Option<T>: None is the empty tuple, Some(v) the one-element tuple.
None == <<>>

Some(v) == <<v>>

IsSome(o) == o # None

Unwrap(o) == o[1]

\* The titles and descriptions a create request may carry.
CreateTitles == {<<"a">>}

CreateDescriptions == {<<"x">>}

\* The fields an update request may carry: nothing, one field, every field.
UpdateArgs ==
    {[title |-> None, description |-> None, completed |-> None],
     [title |-> Some(<<"b">>), description |-> None, completed |-> None],
     [title |-> None, description |-> Some(<<"y">>), completed |-> None],
     [title |-> None, description |-> None, completed |-> Some(TRUE)],
     [title |-> Some(<<"b">>), description |-> Some(<<"y">>),
      completed |-> Some(TRUE)]}

OptionOf(S) == {None} \cup {Some(v) : v \in S}

(* ------------------------------ strings -------------------------------- *)

\* A String is the sequence of its chars; a char is named by a one-element
\* TLA+ string, or by its code point when it is not ASCII.
ThreeByteChars == {"U+3042"}

\* char::len_utf8
Utf8Len(c) == IF c \in ThreeByteChars THEN 3 ELSE 1

\* char::is_whitespace
IsWhitespace(c) == c \in {" ", "\t", "\n"}

RECURSIVE ByteSum(_, _, _)
\* The bytes of the chars s[lo..hi], summed by halves.
ByteSum(s, lo, hi) ==
    IF lo > hi THEN 0
    ELSE IF lo = hi THEN Utf8Len(s[lo])
         ELSE LET mid == (lo + hi) \div 2
              IN ByteSum(s, lo, mid) + ByteSum(s, mid + 1, hi)

\* str::len: the length in bytes
StrLen(s) == ByteSum(s, 1, Len(s))

RECURSIVE TrimStart(_)
TrimStart(s) ==
    IF s # <<>> /\ IsWhitespace(Head(s)) THEN TrimStart(Tail(s)) ELSE s

RECURSIVE TrimEnd(_)
TrimEnd(s) ==
    IF s # <<>> /\ IsWhitespace(s[Len(s)])
    THEN TrimEnd(SubSeq(s, 1, Len(s) - 1)) ELSE s

\* str::trim
Trim(s) == TrimEnd(TrimStart(s))

\* str::contains(char)
Contains(s, c) == \E i \in DOMAIN s : s[i] = c


(* ------------------------------ error.rs ------------------------------- *)

\* Result::Ok and Result::Err
Ok(v) == [ok |-> TRUE, val |-> v]

Err(e) == [ok |-> FALSE, err |-> e]

\* The variants of AppError, each carrying its message.
InternalServerError(msg) == [kind |-> "InternalServerError", msg |-> msg]

ValidationError(msg) == [kind |-> "ValidationError", msg |-> msg]

Unauthorized(msg) == [kind |-> "Unauthorized", msg |-> msg]

NotFound(msg) == [kind |-> "NotFound", msg |-> msg]

BadRequest(msg) == [kind |-> "BadRequest", msg |-> msg]

\* An error_info that sends the carried message of every variant.
ErrorInfoVerbatim(e) ==
    [status |-> CASE e.kind = "InternalServerError" -> 500
                  [] e.kind = "ValidationError" -> 400
                  [] e.kind = "Unauthorized" -> 401
                  [] e.kind = "NotFound" -> 404
                  [] e.kind = "BadRequest" -> 400,
     error |-> CASE e.kind = "InternalServerError" -> "internal_server_error"
                 [] e.kind = "ValidationError" -> "validation_error"
                 [] e.kind = "Unauthorized" -> "unauthorized"
                 [] e.kind = "NotFound" -> "not_found"
                 [] e.kind = "BadRequest" -> "bad_request",
     message |-> e.msg]

\* An error_info that tags a BadRequest as a validation error.
ErrorInfoMergedTags(e) ==
    CASE e.kind = "InternalServerError" ->
             [status |-> 500, error |-> "internal_server_error",
              message |-> "An internal server error occurred"]
      [] e.kind = "BadRequest" ->
             [status |-> 400, error |-> "validation_error", message |-> e.msg]
      [] OTHER -> ErrorInfoVerbatim(e)

\* AppError::error_info and into_response: the status and the JSON body.
ErrorInfo(e) ==
    CASE e.kind = "InternalServerError" ->
             [status |-> 500, error |-> "internal_server_error",
              message |-> "An internal server error occurred"]
      [] e.kind = "ValidationError" ->
             [status |-> 400, error |-> "validation_error", message |-> e.msg]
      [] e.kind = "Unauthorized" ->
             [status |-> 401, error |-> "unauthorized", message |-> e.msg]
      [] e.kind = "NotFound" ->
             [status |-> 404, error |-> "not_found", message |-> e.msg]
      [] e.kind = "BadRequest" ->
             [status |-> 400, error |-> "bad_request", message |-> e.msg]

\* impl From<std::io::Error> for AppError
FromIo(err) == InternalServerError(<<"IO error: ", err>>)

\* impl From<serde_json::Error> for AppError
FromSerdeJson(err) == BadRequest(<<"Invalid JSON: ", err>>)

\* A conversion that reports a query without rows as NotFound.
FromSqlxRowNotFoundAsNotFound(err) ==
    IF err = "RowNotFound" THEN NotFound("Not found")
    ELSE InternalServerError("Database error")

\* impl From<sqlx::Error> for AppError
FromSqlx(err) == InternalServerError("Database error")

\* The `?` after a query: a sqlx error becomes an AppError.
Try(r) == IF r.ok THEN r ELSE Err(FromSqlx(r.err))

\* A handler's Result<Json<T>> as the response sent.
IntoResponse(r) ==
    IF r.ok THEN [status |-> 200, body |-> r.val] ELSE ErrorInfo(r.err)

(* ------------------------------ models.rs ------------------------------ *)

TitleMaxLen == 200

DescriptionMaxLen == 1000

\* The check on a description, shared by both validate methods.
CheckDescription(description) ==
    IF IsSome(description) /\ StrLen(Unwrap(description)) > DescriptionMaxLen
    THEN Err("Description must be 1000 characters or less")
    ELSE Ok(<<>>)

\* The checks on a title, shared by both validate methods.
CheckTitle(title) ==
    IF Trim(title) = <<>> THEN Err("Title cannot be empty")
    ELSE IF StrLen(title) > TitleMaxLen
         THEN Err("Title must be 200 characters or less")
         ELSE Ok(<<>>)

\* CreateTodoRequest::validate
ValidateCreateTodo(payload) ==
    IF ~CheckTitle(payload.title).ok THEN CheckTitle(payload.title)
    ELSE CheckDescription(payload.description)

\* An UpdateTodoRequest::validate that demands a title, as create's does.
ValidateUpdateTodoTitleRequired(payload) ==
    IF payload.title = None THEN Err("Title cannot be empty")
    ELSE IF ~CheckTitle(Unwrap(payload.title)).ok
         THEN CheckTitle(Unwrap(payload.title))
         ELSE CheckDescription(payload.description)

\* UpdateTodoRequest::validate
ValidateUpdateTodo(payload) ==
    IF IsSome(payload.title) /\ ~CheckTitle(Unwrap(payload.title)).ok
    THEN CheckTitle(Unwrap(payload.title))
    ELSE CheckDescription(payload.description)

\* `.map_err(AppError::ValidationError)?` of the todo handlers
MapErrValidation(r) == IF r.ok THEN r ELSE Err(ValidationError(r.err))

\* "Todo with id {id} not found" and "Todo with id {id} deleted successfully"
TodoNotFoundMsg(id) == <<"Todo with id ", id, " not found">>

TodoDeletedMsg(id) == <<"Todo with id ", id, " deleted successfully">>

\* A handler that answers an absent Todo with 200 and a null body.
OkOrNotFoundAsNull(id, found) ==
    Ok(IF found = <<>> THEN <<>> ELSE found[1])

\* `.map(Json).ok_or_else(|| AppError::NotFound(..))` of get_todo and
\* update_todo, on the Option the store returned.
OkOrNotFound(id, found) ==
    IF found # <<>> THEN Ok(found[1]) ELSE Err(NotFound(TodoNotFoundMsg(id)))

\* The if/else of delete_todo, on the bool the store returned.
DeletedOrNotFound(id, removed) ==
    IF removed THEN Ok([message |-> TodoDeletedMsg(id)])
    ELSE Err(NotFound(TodoNotFoundMsg(id)))

(* --------------------------- TodoStore state --------------------------- *)

VARIABLES
    todos,          \* HashMap<u64, Todo> behind self.todos
    next_id,        \* u64 behind self.next_id
    todos_lock,     \* holder of the todos mutex, or Free
    next_id_lock,   \* holder of the next_id mutex, or Free
    pc,             \* pc[t]: where thread t stands inside its current call
    op,             \* op[t]: arguments and locals of thread t's current call
    last,           \* the call completed last: its arguments and result
    calls,          \* number of calls started so far
    issued,         \* history: the ids read from next_id, in allocation order
    returned,       \* history: id -> number of create calls that returned it
    supplied,       \* history: id -> the title and description given to create
    abs,            \* history: the map with every call applied in one step
    touched,        \* history: ids an update or delete has found in the map
    deleted         \* history: id -> number of delete calls that returned true

todoVars == <<todos, next_id, todos_lock, next_id_lock, pc, op, last, calls,
              issued, returned, supplied, abs, touched, deleted>>

(* ------------------------- users table state --------------------------- *)

VARIABLES
    users,          \* the users table: id -> row
    clock,          \* the database server's CURRENT_TIMESTAMP
    ulast,          \* the repository call or user request completed last
    ucalls,         \* number of repository calls and user requests so far
    udeleted        \* history: id -> number of delete calls that returned Ok

userVars == <<users, clock, ulast, ucalls, udeleted>>

(* ------------------- request and response boundary -------------------- *)

VARIABLES
    input,          \* a payload or an error arriving at the boundary
    output          \* what validation, conversion or into_response made of it

boundaryVars == <<input, output>>

(* -------------------- attendance_events table state ------------------- *)

VARIABLES
    events,         \* the attendance_events table: id -> row
    epending,       \* the create calls that have read the clock, not yet run
    elast,          \* the repository call completed last
    ecalls,         \* number of create calls started so far
    ecreated        \* history: id -> the event as create returned it

eventVars == <<events, epending, elast, ecalls, ecreated>>

vars == <<todoVars, userVars, boundaryVars, eventVars>>

\* models::Todo
Todo(id, title, description, completed) ==
    [id |-> id, title |-> title, description |-> description,
     completed |-> completed]

NoOp == [name |-> "none"]

NoCall == [name |-> "none"]

\* HashMap::insert
MapInsert(m, k, v) ==
    [x \in (DOMAIN m) \cup {k} |-> IF x = k THEN v ELSE m[x]]

\* HashMap::remove
MapRemove(m, k) == [x \in (DOMAIN m) \ {k} |-> m[x]]

\* HashMap::get(..).cloned()
MapGet(m, k) == IF k \in DOMAIN m THEN Some(m[k]) ELSE None

\* HashMap::values().cloned().collect(); the order of the Vec is unspecified
MapValues(m) == {m[k] : k \in DOMAIN m}

\* TodoStore::new
TodoInit ==
    /\ todos = <<>>
    /\ next_id = 1
    /\ todos_lock = Free
    /\ next_id_lock = Free
    /\ pc = [t \in Threads |-> "idle"]
    /\ op = [t \in Threads |-> NoOp]
    /\ last = NoCall
    /\ calls = 0
    /\ issued = <<>>
    /\ returned = <<>>
    /\ supplied = <<>>
    /\ abs = <<>>
    /\ touched = {}
    /\ deleted = <<>>

\* An empty users table.
UserInit ==
    /\ users = <<>>
    /\ clock = 1
    /\ ulast = NoCall
    /\ ucalls = 0
    /\ udeleted = <<>>

\* No payload or error under examination.
BoundaryIdle ==
    /\ input = [kind |-> "none"]
    /\ output = [kind |-> "none"]

\* An empty attendance_events table, no call under way.
EventInit ==
    /\ events = <<>>
    /\ epending = {}
    /\ elast = NoCall
    /\ ecalls = 0
    /\ ecreated = <<>>

Init == TodoInit /\ UserInit /\ BoundaryIdle /\ EventInit

\* The ids a request may name: every id issued so far and the next one.
IdArgs == 1..next_id

CanCall(t) == pc[t] = "idle" /\ calls < MaxCalls

\* The history a reader's result is judged against, as it stood at the read.
Seen == [inserted |-> DOMAIN returned, touched |-> touched,
         deleted |-> DOMAIN deleted]

(* ----------------------------- TodoStore::create ----------------------- *)

\* `let mut next_id = self.next_id.lock().unwrap()`: blocks until the counter
\* mutex is free.
LockNextId(t) == next_id_lock = Free

\* A create that lets go of the counter mutex right after reading the id.
NextIdGuardDropped(t) == Free

\* The guard `next_id` is held from the lock until `drop(next_id)`.
NextIdGuard(t) == t

\* A create that derives the id from the number of stored Todos.
AllocIdFromLen == Cardinality(DOMAIN todos) + 1

\* `let id = *next_id`
AllocId == next_id

\* Lines 47-48: take the counter lock and read the id.
CreateLockRead(t, title, description) ==
    /\ CanCall(t)
    /\ LockNextId(t)
    /\ next_id_lock' = NextIdGuard(t)
    /\ op' = [op EXCEPT ![t] = [name |-> "create", id |-> AllocId,
                                title |-> title, description |-> description]]
    /\ issued' = Append(issued, AllocId)
    /\ pc' = [pc EXCEPT ![t] = "c_inc"]
    /\ calls' = calls + 1
    /\ UNCHANGED <<userVars, boundaryVars, eventVars, todos, next_id, todos_lock, last, returned, supplied, abs, touched,
                   deleted>>

\* A create that releases the counter lock without the increment.
CreateIncDropForgetsIncrement(t) ==
    /\ pc[t] = "c_inc"
    /\ next_id_lock' = Free
    /\ pc' = [pc EXCEPT ![t] = "c_insert"]
    /\ UNCHANGED <<userVars, boundaryVars, eventVars, todos, next_id,
                   todos_lock, op, last, calls, issued, returned, supplied,
                   abs, touched, deleted>>

\* Lines 49-50: `*next_id += 1; drop(next_id)`.
CreateIncDrop(t) ==
    /\ pc[t] = "c_inc"
    /\ next_id' = next_id + 1
    /\ next_id_lock' = Free
    /\ pc' = [pc EXCEPT ![t] = "c_insert"]
    /\ UNCHANGED <<userVars, boundaryVars, eventVars, todos, todos_lock, op, last, calls, issued, returned, supplied, abs,
                   touched, deleted>>

\* `self.todos.lock().unwrap()` as a temporary: blocks until the collection
\* mutex is free and releases it at the end of the statement.
LockTodos(t) == todos_lock = Free

\* A create that forgets the description it was given.
NewTodoNoDescription(id, title, description) == Todo(id, title, None, FALSE)

\* Lines 52-57: `Todo { id, title, description, completed: false }`
NewTodo(id, title, description) == Todo(id, title, description, FALSE)

\* Lines 52-62: build the Todo, insert it under the collection lock, return.
CreateInsert(t) ==
    /\ pc[t] = "c_insert"
    /\ LockTodos(t)
    /\ LET todo == NewTodo(op[t].id, op[t].title, op[t].description)
       IN /\ todos' = MapInsert(todos, op[t].id, todo)
          /\ abs' = MapInsert(abs, op[t].id, todo)
          /\ last' = [name |-> "create", thread |-> t, id |-> op[t].id,
                      val |-> todo]
          /\ returned' = MapInsert(returned, op[t].id,
                             IF op[t].id \in DOMAIN returned
                             THEN returned[op[t].id] + 1 ELSE 1)
    /\ supplied' = MapInsert(supplied, op[t].id,
                        [title |-> op[t].title,
                         description |-> op[t].description])
    /\ pc' = [pc EXCEPT ![t] = "idle"]
    /\ op' = [op EXCEPT ![t] = NoOp]
    /\ UNCHANGED <<userVars, boundaryVars, eventVars, next_id, todos_lock, next_id_lock, calls, issued, touched,
                   deleted>>

(* ----------------------------- TodoStore::update ----------------------- *)

\* `if let Some(t) = title { todo.title = t; }`
WriteTitle(todo, title) ==
    IF IsSome(title) THEN [todo EXCEPT !.title = Unwrap(title)] ELSE todo

\* An update that assigns the description whether or not it was provided.
WriteDescriptionAlways(todo, description) ==
    [todo EXCEPT !.description = description]

\* `if let Some(d) = description { todo.description = Some(d); }`
WriteDescription(todo, description) ==
    IF IsSome(description)
    THEN [todo EXCEPT !.description = Some(Unwrap(description))]
    ELSE todo

\* `if let Some(c) = completed { todo.completed = c; }`
WriteCompleted(todo, completed) ==
    IF IsSome(completed) THEN [todo EXCEPT !.completed = Unwrap(completed)]
    ELSE todo

\* An update that locks the collection anew for every field it writes.
TodosGuardPerStatement(t) == Free

\* The guard `todos` of update lives from its lock to the return.
TodosGuard(t) == t

\* The whole update applied to one Todo at once (the abstract update).
Patch(todo, title, description, completed) ==
    [id |-> todo.id,
     title |-> IF IsSome(title) THEN Unwrap(title) ELSE todo.title,
     description |-> IF IsSome(description) THEN description
                     ELSE todo.description,
     completed |-> IF IsSome(completed) THEN Unwrap(completed)
                   ELSE todo.completed]

\* Lines 76, 78, 91-93: the key is absent; None is returned.
UpdateMissing(t, id) ==
    /\ CanCall(t)
    /\ LockTodos(t)
    /\ id \notin DOMAIN todos
    /\ last' = [name |-> "update", thread |-> t, id |-> id, val |-> None,
                pre |-> todos, post |-> todos,
                http |-> IntoResponse(OkOrNotFound(id, None))]
    /\ calls' = calls + 1
    /\ UNCHANGED <<userVars, boundaryVars, eventVars, todos, next_id, todos_lock, next_id_lock, pc, op, issued,
                   returned, supplied, abs, touched, deleted>>

\* Lines 76-81: lock, get_mut finds the key, the title is written.
UpdateLockTitle(t, id, title, description, completed) ==
    /\ CanCall(t)
    /\ LockTodos(t)
    /\ id \in DOMAIN todos
    /\ todos_lock' = TodosGuard(t)
    /\ todos' = [todos EXCEPT ![id] = WriteTitle(@, title)]
    /\ op' = [op EXCEPT ![t] = [name |-> "update", id |-> id,
                                title |-> title, description |-> description,
                                completed |-> completed, pre |-> todos]]
    /\ abs' = [abs EXCEPT ![id] = Patch(@, title, description, completed)]
    /\ touched' = touched \cup {id}
    /\ pc' = [pc EXCEPT ![t] = "u_desc"]
    /\ calls' = calls + 1
    /\ UNCHANGED <<userVars, boundaryVars, eventVars, next_id, next_id_lock, last, issued, returned, supplied, deleted>>

\* Lines 82-84: the description is written.
UpdateDescription(t) ==
    /\ pc[t] = "u_desc"
    /\ todos' = [todos EXCEPT ![op[t].id] = WriteDescription(@, op[t].description)]
    /\ pc' = [pc EXCEPT ![t] = "u_done"]
    /\ UNCHANGED <<userVars, boundaryVars, eventVars, next_id, todos_lock, next_id_lock, op, last, calls, issued,
                   returned, supplied, abs, touched, deleted>>

\* An update that returns without releasing the collection lock.
UpdateFinishLeaksGuard(t) ==
    /\ pc[t] = "u_done"
    /\ todos' = [todos EXCEPT ![op[t].id] = WriteCompleted(@, op[t].completed)]
    /\ last' = [name |-> "update", thread |-> t, id |-> op[t].id,
                title |-> op[t].title, description |-> op[t].description,
                completed |-> op[t].completed,
                val |-> MapGet(todos', op[t].id), pre |-> op[t].pre,
                post |-> todos',
                http |-> IntoResponse(
                             OkOrNotFound(op[t].id, MapGet(todos', op[t].id)))]
    /\ pc' = [pc EXCEPT ![t] = "idle"]
    /\ op' = [op EXCEPT ![t] = NoOp]
    /\ UNCHANGED <<userVars, boundaryVars, eventVars, next_id, todos_lock,
                   next_id_lock, calls, issued, returned, supplied, abs,
                   touched, deleted>>

\* Lines 85-90: completed is written, the Todo is cloned and returned, and
\* the guard is dropped.
UpdateFinish(t) ==
    /\ pc[t] = "u_done"
    /\ todos' = [todos EXCEPT ![op[t].id] = WriteCompleted(@, op[t].completed)]
    /\ last' = [name |-> "update", thread |-> t, id |-> op[t].id,
                title |-> op[t].title, description |-> op[t].description,
                completed |-> op[t].completed,
                val |-> MapGet(todos', op[t].id), pre |-> op[t].pre,
                post |-> todos',
                http |-> IntoResponse(
                             OkOrNotFound(op[t].id, MapGet(todos', op[t].id)))]
    /\ todos_lock' = Free
    /\ pc' = [pc EXCEPT ![t] = "idle"]
    /\ op' = [op EXCEPT ![t] = NoOp]
    /\ UNCHANGED <<userVars, boundaryVars, eventVars, next_id, next_id_lock, calls, issued, returned, supplied, abs,
                   touched, deleted>>

(* ------------------------ TodoStore::delete and reads ------------------ *)

\* A delete that looks the key up and leaves it in the map.
RemoveTodoKeeps(m, id) == m

\* `todos.remove(&id)`: the map afterwards.
RemoveTodo(m, id) == MapRemove(m, id)

\* Lines 100-108.
Delete(t, id) ==
    /\ CanCall(t)
    /\ LockTodos(t)
    /\ todos' = RemoveTodo(todos, id)
    /\ last' = [name |-> "delete", thread |-> t, id |-> id,
                val |-> IsSome(MapGet(todos, id)), seen |-> Seen,
                pre |-> todos, post |-> todos',
                http |-> IntoResponse(
                             DeletedOrNotFound(id, IsSome(MapGet(todos, id))))]
    /\ abs' = MapRemove(abs, id)
    /\ touched' = IF id \in DOMAIN todos THEN touched \cup {id} ELSE touched
    /\ deleted' = IF id \in DOMAIN todos
                   THEN MapInsert(deleted, id,
                            IF id \in DOMAIN deleted THEN deleted[id] + 1
                            ELSE 1)
                   ELSE deleted
    /\ calls' = calls + 1
    /\ UNCHANGED <<userVars, boundaryVars, eventVars, next_id, todos_lock, next_id_lock, pc, op, issued, returned, supplied>>

\* Lines 37-40.
GetById(t, id) ==
    /\ CanCall(t)
    /\ LockTodos(t)
    /\ last' = [name |-> "get_by_id", thread |-> t, id |-> id,
                val |-> MapGet(todos, id), seen |-> Seen,
                abs |-> MapGet(abs, id), pre |-> todos, post |-> todos,
                http |-> IntoResponse(OkOrNotFound(id, MapGet(todos, id)))]
    /\ calls' = calls + 1
    /\ UNCHANGED <<userVars, boundaryVars, eventVars, todos, next_id, todos_lock, next_id_lock, pc, op, issued,
                   returned, supplied, abs, touched, deleted>>

\* Lines 27-30.
GetAll(t) ==
    /\ CanCall(t)
    /\ LockTodos(t)
    /\ last' = [name |-> "get_all", thread |-> t, val |-> MapValues(todos),
                seen |-> Seen, abs |-> MapValues(abs)]
    /\ calls' = calls + 1
    /\ UNCHANGED <<userVars, boundaryVars, eventVars, todos, next_id, todos_lock, next_id_lock, pc, op, issued,
                   returned, supplied, abs, touched, deleted>>

(* --------------------------- handlers/todo.rs -------------------------- *)

\* The payloads of POST /api/todos and PUT /api/todos/{id}: the ones above
\* and one with a blank title.
BlankTitle == <<" ">>

CreateTodoPayloads ==
    [title : CreateTitles, description : OptionOf(CreateDescriptions)]
        \cup {[title |-> BlankTitle, description |-> None]}

UpdateTodoPayloads ==
    UpdateArgs
        \cup {[title |-> Some(BlankTitle), description |-> Some(<<"y">>),
               completed |-> Some(TRUE)]}

\* What a request can change: the collection and the counter.
StoreOf(m, n) == [todos |-> m, next_id |-> n]

\* A create_todo that validates after it has taken an id.
CreateTodoRejectedAfterAlloc(t, payload) ==
    /\ CanCall(t)
    /\ LockNextId(t)
    /\ ~ValidateCreateTodo(payload).ok
    /\ next_id' = next_id + 1
    /\ UNCHANGED todos
    /\ last' = [name |-> "create_todo", thread |-> t, payload |-> payload,
                http |-> IntoResponse(
                             MapErrValidation(ValidateCreateTodo(payload))),
                pre |-> StoreOf(todos, next_id),
                post |-> StoreOf(todos', next_id')]
    /\ calls' = calls + 1
    /\ UNCHANGED <<userVars, boundaryVars, eventVars, todos_lock, next_id_lock, pc, op,
                   issued, returned, supplied, abs, touched, deleted>>

\* create_todo whose payload fails validation: the `?` returns the error
\* before the store is called.
CreateTodoRejected(t, payload) ==
    /\ CanCall(t)
    /\ ~ValidateCreateTodo(payload).ok
    /\ UNCHANGED <<todos, next_id>>
    /\ last' = [name |-> "create_todo", thread |-> t, payload |-> payload,
                http |-> IntoResponse(
                             MapErrValidation(ValidateCreateTodo(payload))),
                pre |-> StoreOf(todos, next_id),
                post |-> StoreOf(todos', next_id')]
    /\ calls' = calls + 1
    /\ UNCHANGED <<userVars, boundaryVars, eventVars, todos_lock, next_id_lock, pc, op,
                   issued, returned, supplied, abs, touched, deleted>>

\* update_todo whose payload fails validation: the `?` returns the error
\* before the store is called.
UpdateTodoRejected(t, id, payload) ==
    /\ CanCall(t)
    /\ ~ValidateUpdateTodo(payload).ok
    /\ UNCHANGED <<todos, next_id>>
    /\ last' = [name |-> "update_todo", thread |-> t, id |-> id,
                payload |-> payload,
                http |-> IntoResponse(
                             MapErrValidation(ValidateUpdateTodo(payload))),
                pre |-> StoreOf(todos, next_id),
                post |-> StoreOf(todos', next_id')]
    /\ calls' = calls + 1
    /\ UNCHANGED <<userVars, boundaryVars, eventVars, todos_lock, next_id_lock, pc, op,
                   issued, returned, supplied, abs, touched, deleted>>

Next ==
    \E t \in Threads :
        \/ \E payload \in CreateTodoPayloads :
               CreateTodoRejected(t, payload)
        \/ \E payload \in CreateTodoPayloads :
               /\ ValidateCreateTodo(payload).ok
               /\ CreateLockRead(t, payload.title, payload.description)
        \/ CreateIncDrop(t)
        \/ CreateInsert(t)
        \/ \E id \in IdArgs : UpdateMissing(t, id)
        \/ \E id \in IdArgs, payload \in UpdateTodoPayloads :
               UpdateTodoRejected(t, id, payload)
        \/ \E id \in IdArgs, u \in UpdateTodoPayloads :
               /\ ValidateUpdateTodo(u).ok
               /\ UpdateLockTitle(t, id, u.title, u.description, u.completed)
        \/ UpdateDescription(t)
        \/ UpdateFinish(t)
        \/ \E id \in IdArgs : Delete(t, id)
        \/ \E id \in IdArgs : GetById(t, id)
        \/ GetAll(t)

Spec == Init /\ [][Next]_vars

\* Spec with a fair scheduler and fair mutexes: a thread that holds a lock
\* takes its next step, and a thread waiting for the collection lock gets it
\* if the lock is free again and again.
\* Next with the calls started limited to MaxFairCalls.
FairCall == calls < MaxFairCalls

FairNext ==
    \E t \in Threads :
        \/ \E payload \in CreateTodoPayloads :
               FairCall /\ CreateTodoRejected(t, payload)
        \/ \E payload \in CreateTodoPayloads :
               /\ FairCall
               /\ ValidateCreateTodo(payload).ok
               /\ CreateLockRead(t, payload.title, payload.description)
        \/ CreateIncDrop(t)
        \/ CreateInsert(t)
        \/ \E id \in IdArgs : FairCall /\ UpdateMissing(t, id)
        \/ \E id \in IdArgs, payload \in UpdateTodoPayloads :
               FairCall /\ UpdateTodoRejected(t, id, payload)
        \/ \E id \in IdArgs, u \in UpdateTodoPayloads :
               /\ FairCall
               /\ ValidateUpdateTodo(u).ok
               /\ UpdateLockTitle(t, id, u.title, u.description, u.completed)
        \/ UpdateDescription(t)
        \/ UpdateFinish(t)
        \/ \E id \in IdArgs : FairCall /\ Delete(t, id)
        \/ \E id \in IdArgs : FairCall /\ GetById(t, id)
        \/ FairCall /\ GetAll(t)

FairSpec ==
    /\ Init
    /\ [][FairNext]_vars
    /\ \A t \in Threads :
           /\ WF_vars(CreateIncDrop(t))
           /\ SF_vars(CreateInsert(t))
           /\ WF_vars(UpdateDescription(t))
           /\ WF_vars(UpdateFinish(t))

(* ------------------------- sqlx and the database ----------------------- *)

\* What can go wrong around one statement: nothing, the statement never
\* runs (no pooled connection in time, connection lost), or the statement
\* runs and its answer is lost.
Faults == {"none", "request_lost", "response_lost"}

\* For a query, which changes nothing, the two faults are one.
ReadFaults == {"none", "request_lost"}

\* sqlx fetch_optional, fetch_one and execute on the rows a statement yields.
FetchOptional(rows) ==
    Ok(IF rows = {} THEN None ELSE Some(CHOOSE r \in rows : TRUE))

FetchOne(rows) ==
    IF rows = {} THEN Err("RowNotFound") ELSE Ok(CHOOSE r \in rows : TRUE)

RowsAffected(n) == Ok([rows_affected |-> n])

\* The answer sqlx gives for a statement under a fault.
Transport(fault, answer) ==
    CASE fault = "none" -> answer
      [] fault = "request_lost" -> Err("PoolTimedOut")
      [] fault = "response_lost" -> Err("Io")

\* The table a statement leaves behind under a fault.
Effect(fault, before, after) ==
    IF fault = "request_lost" THEN before ELSE after

\* The columns every query of UserRepository selects or returns: models::User.
UserOf(table, id) ==
    [id |-> id, name |-> table[id].name, email |-> table[id].email,
     picture |-> table[id].picture, created_at |-> table[id].created_at,
     updated_at |-> table[id].updated_at]

\* users.email is unique.
EmailUnique(table) ==
    \A a, b \in DOMAIN table : table[a].email = table[b].email => a = b

\* The id the table's default generates for a new row: one not in use.
FreshId(table) == Cardinality(DOMAIN table) + 1

\* The row an INSERT of (name, email, picture) creates at time now.
NewRow(name, email, picture, now) ==
    [name |-> name, email |-> email, picture |-> picture,
     created_at |-> now, updated_at |-> now, deleted_at |-> None]

\* COALESCE($n, column) for a NOT NULL column and for a nullable one.
Coalesce(param, column) == IF IsSome(param) THEN Unwrap(param) ELSE column

\* `picture = $4`: an omitted picture written as NULL.
CoalesceNullableOverwrite(param, column) == param

CoalesceNullable(param, column) == IF IsSome(param) THEN param ELSE column

(* ---------------------------- UserRepository --------------------------- *)

\* `WHERE id = $1 AND deleted_at IS NULL` of find_by_id
FindByIdWhere(table, r, id) == r = id /\ table[r].deleted_at = None

\* find_by_id
RepoFindById(table, id, fault) ==
    LET rows == {UserOf(table, r) :
                     r \in {x \in DOMAIN table : FindByIdWhere(table, x, id)}}
    IN Try(Transport(fault, FetchOptional(rows)))

\* A find_by_email that matches on the email alone.
FindByEmailWhereAnyRow(table, r, email) == table[r].email = email

\* `WHERE email = $1 AND deleted_at IS NULL` of find_by_email
FindByEmailWhere(table, r, email) ==
    table[r].email = email /\ table[r].deleted_at = None

\* find_by_email
RepoFindByEmail(table, email, fault) ==
    LET rows == {UserOf(table, r) :
                     r \in {x \in DOMAIN table :
                                FindByEmailWhere(table, x, email)}}
    IN Try(Transport(fault, FetchOptional(rows)))

\* The INSERT of create: the table afterwards and sqlx's answer.
InsertUser(table, user, now) ==
    LET id == FreshId(table)
        after == MapInsert(table, id,
                     NewRow(user.name, user.email, user.picture, now))
    IN IF EmailUnique(after)
       THEN [table |-> after, answer |-> FetchOne({UserOf(after, id)})]
       ELSE [table |-> table, answer |-> Err("Database")]

\* create
RepoCreate(table, user, now, fault) ==
    LET st == InsertUser(table, user, now)
    IN [table |-> Effect(fault, table, st.table),
        res |-> Try(Transport(fault, st.answer))]

\* An update that matches on the id alone.
UpdateWhereAnyRow(table, r, id) == r = id

\* `WHERE id = $4 AND deleted_at IS NULL` of update
UpdateWhere(table, r, id) == r = id /\ table[r].deleted_at = None

\* The UPDATE ... RETURNING of update: the table afterwards and sqlx's answer.
UpdateUserRow(table, id, user, now) ==
    LET hit == {r \in DOMAIN table : UpdateWhere(table, r, id)}
        after == [r \in DOMAIN table |->
                     IF r \in hit
                     THEN [table[r] EXCEPT
                              !.name = Coalesce(user.name, @),
                              !.email = Coalesce(user.email, @),
                              !.picture = CoalesceNullable(user.picture, @),
                              !.updated_at = now]
                     ELSE table[r]]
    IN IF EmailUnique(after)
       THEN [table |-> after,
             answer |-> FetchOne({UserOf(after, r) : r \in hit})]
       ELSE [table |-> table, answer |-> Err("Database")]

\* update
RepoUpdate(table, id, user, now, fault) ==
    LET st == UpdateUserRow(table, id, user, now)
    IN [table |-> Effect(fault, table, st.table),
        res |-> Try(Transport(fault, st.answer))]

\* A delete that matches on the id alone.
DeleteWhereAnyRow(table, r, id) == r = id

\* `WHERE id = $1 AND deleted_at IS NULL` of delete
DeleteWhere(table, r, id) == r = id /\ table[r].deleted_at = None

\* The UPDATE of delete: the table afterwards and sqlx's answer.
SoftDeleteRow(table, id, now) ==
    LET hit == {r \in DOMAIN table : DeleteWhere(table, r, id)}
    IN [table |-> [r \in DOMAIN table |->
                      IF r \in hit
                      THEN [table[r] EXCEPT !.deleted_at = Some(now)]
                      ELSE table[r]],
        answer |-> RowsAffected(Cardinality(hit))]

\* "User with id {id} not found"
UserNotFoundMsg(id) == <<"User with id ", id, " not found">>

\* delete
RepoDelete(table, id, now, fault) ==
    LET st == SoftDeleteRow(table, id, now)
        result == Try(Transport(fault, st.answer))
    IN [table |-> Effect(fault, table, st.table),
        res |-> IF ~result.ok THEN result
                ELSE IF result.val.rows_affected = 0
                     THEN Err(NotFound(UserNotFoundMsg(id)))
                     ELSE Ok(<<>>)]

(* ----------------------------- handlers/user.rs ------------------------ *)

NameMaxLen == 100

EmailMaxLen == 255

\* The checks on a name and on an email, shared by both validate methods.
CheckName(name) ==
    IF Trim(name) = <<>> THEN Err(ValidationError("Name cannot be empty"))
    ELSE IF StrLen(name) > NameMaxLen
         THEN Err(ValidationError("Name must be 100 characters or less"))
         ELSE Ok(<<>>)

CheckEmail(email) ==
    IF Trim(email) = <<>> THEN Err(ValidationError("Email cannot be empty"))
    ELSE IF StrLen(email) > EmailMaxLen
         THEN Err(ValidationError("Email must be 255 characters or less"))
         ELSE IF ~Contains(email, "@") \/ ~Contains(email, ".")
              THEN Err(ValidationError("Email must be a valid email address"))
              ELSE Ok(<<>>)

\* CreateUserRequest::validate
ValidateCreateUser(payload) ==
    IF ~CheckName(payload.name).ok THEN CheckName(payload.name)
    ELSE CheckEmail(payload.email)

\* An UpdateUserRequest::validate that rejects a payload without fields.
ValidateUpdateUserNonEmpty(payload) ==
    IF payload.name = None /\ payload.email = None /\ payload.picture = None
    THEN Err(ValidationError("No fields to update"))
    ELSE IF IsSome(payload.name) /\ ~CheckName(Unwrap(payload.name)).ok
         THEN CheckName(Unwrap(payload.name))
         ELSE IF IsSome(payload.email) THEN CheckEmail(Unwrap(payload.email))
              ELSE Ok(<<>>)

\* UpdateUserRequest::validate
ValidateUpdateUser(payload) ==
    IF IsSome(payload.name) /\ ~CheckName(Unwrap(payload.name)).ok
    THEN CheckName(Unwrap(payload.name))
    ELSE IF IsSome(payload.email) THEN CheckEmail(Unwrap(payload.email))
         ELSE Ok(<<>>)

\* The names, emails and pictures the requests carry.
NameA == <<"A">>

NameB == <<"B">>

Email1 == <<"a", "@", "x", ".", "y">>

Email2 == <<"b", "@", "x", ".", "y">>

Picture == <<"p">>

Blank == <<" ">>

NoAt == <<"b", ".", "x">>

\* The payloads of POST /api/users: two valid ones and one with a blank name.
CreatePayloads ==
    {[name |-> NameA, email |-> Email1, picture |-> Some(Picture)],
     [name |-> NameA, email |-> Email2, picture |-> None],
     [name |-> Blank, email |-> Email1, picture |-> None]}

\* The payloads of PUT /api/users/{id}: nothing, one field, every field, and
\* an email without '@'.
UpdatePayloads ==
    {[name |-> None, email |-> None, picture |-> None],
     [name |-> Some(NameB), email |-> None, picture |-> None],
     [name |-> None, email |-> Some(Email2), picture |-> None],
     [name |-> None, email |-> None, picture |-> Some(Picture)],
     [name |-> Some(NameB), email |-> Some(Email2),
      picture |-> Some(Picture)],
     [name |-> None, email |-> Some(NoAt), picture |-> None]}

\* The emails find_by_email is asked for.
FindEmails == {Email1, Email2}

\* The ids a request may name: every row's id and one that is unknown.
UserIdArgs == 1..(Cardinality(DOMAIN users) + 1)

CanCallUser == ucalls < MaxUserCalls

\* get_user: GET /api/users/{id}
GetUser(id, fault) ==
    /\ CanCallUser
    /\ LET r == RepoFindById(users, id, fault)
           h == IF ~r.ok THEN r
                ELSE IF IsSome(r.val) THEN Ok(Unwrap(r.val))
                     ELSE Err(NotFound(UserNotFoundMsg(id)))
       IN ulast' = [name |-> "find_by_id", id |-> id, fault |-> fault,
                    pre |-> users, repo |-> r, http |-> IntoResponse(h)]
    /\ ucalls' = ucalls + 1
    /\ UNCHANGED <<todoVars, boundaryVars, eventVars, users, clock, udeleted>>

\* UserRepository::find_by_email, which no route calls.
FindByEmail(email, fault) ==
    /\ CanCallUser
    /\ ulast' = [name |-> "find_by_email", email |-> email, fault |-> fault,
                 pre |-> users, repo |-> RepoFindByEmail(users, email, fault)]
    /\ ucalls' = ucalls + 1
    /\ UNCHANGED <<todoVars, boundaryVars, eventVars, users, clock, udeleted>>

\* create_user: POST /api/users
CreateUser(payload, fault) ==
    /\ CanCallUser
    /\ LET v == ValidateCreateUser(payload)
           st == RepoCreate(users, payload, clock, fault)
       IN IF ~v.ok
          THEN /\ fault = "none"
               /\ users' = users
               /\ ulast' = [name |-> "create", payload |-> payload,
                            fault |-> "none", pre |-> users,
                            called |-> FALSE, http |-> IntoResponse(v)]
          ELSE /\ users' = st.table
               /\ ulast' = [name |-> "create", payload |-> payload,
                            fault |-> fault, pre |-> users, called |-> TRUE,
                            repo |-> st.res, http |-> IntoResponse(st.res)]
    /\ ucalls' = ucalls + 1
    /\ UNCHANGED <<todoVars, boundaryVars, eventVars, clock, udeleted>>

\* update_user: PUT /api/users/{id}
UpdateUser(id, payload, fault) ==
    /\ CanCallUser
    /\ LET v == ValidateUpdateUser(payload)
           st == RepoUpdate(users, id, payload, clock, fault)
       IN IF ~v.ok
          THEN /\ fault = "none"
               /\ users' = users
               /\ ulast' = [name |-> "update", id |-> id,
                            payload |-> payload, fault |-> "none",
                            pre |-> users, called |-> FALSE,
                            http |-> IntoResponse(v)]
          ELSE /\ users' = st.table
               /\ ulast' = [name |-> "update", id |-> id,
                            payload |-> payload, fault |-> fault,
                            pre |-> users, called |-> TRUE, repo |-> st.res,
                            http |-> IntoResponse(st.res), now |-> clock]
    /\ ucalls' = ucalls + 1
    /\ UNCHANGED <<todoVars, boundaryVars, eventVars, clock, udeleted>>

\* delete_user: DELETE /api/users/{id}
DeleteUser(id, fault) ==
    /\ CanCallUser
    /\ LET st == RepoDelete(users, id, clock, fault)
           h == IF st.res.ok
                THEN Ok([message |-> <<"User with id ", id,
                                       " deleted successfully">>])
                ELSE st.res
       IN /\ users' = st.table
          /\ ulast' = [name |-> "delete", id |-> id, fault |-> fault,
                       pre |-> users, repo |-> st.res,
                       http |-> IntoResponse(h)]
          /\ udeleted' = IF st.res.ok
                         THEN MapInsert(udeleted, id,
                                  IF id \in DOMAIN udeleted
                                  THEN udeleted[id] + 1 ELSE 1)
                         ELSE udeleted
    /\ ucalls' = ucalls + 1
    /\ UNCHANGED <<todoVars, boundaryVars, eventVars, clock>>

\* Time passes on the database server.
Tick ==
    /\ clock < MaxClock
    /\ clock' = clock + 1
    /\ UNCHANGED <<todoVars, boundaryVars, eventVars, users, ulast, ucalls, udeleted>>

UserNext ==
    \/ \E id \in UserIdArgs, fault \in ReadFaults : GetUser(id, fault)
    \/ \E email \in FindEmails, fault \in ReadFaults :
           FindByEmail(email, fault)
    \/ \E payload \in CreatePayloads, fault \in Faults :
           CreateUser(payload, fault)
    \/ \E id \in UserIdArgs, payload \in UpdatePayloads, fault \in Faults :
           UpdateUser(id, payload, fault)
    \/ \E id \in UserIdArgs, fault \in Faults : DeleteUser(id, fault)
    \/ Tick

UserSpec == Init /\ [][UserNext]_vars

(* ---------------------- AttendanceEventRepository --------------------- *)

\* The events created: two users, one of them with events at two
\* client-supplied times.
EventUserIds == {1, 2}

CreateEvents ==
    {[user_id |-> 1, event_type |-> "clock_in", event_time |-> 1],
     [user_id |-> 1, event_type |-> "clock_out", event_time |-> 3],
     [user_id |-> 2, event_type |-> "clock_in", event_time |-> 1]}

\* The columns every query selects or returns: models::AttendanceEvent.
EventOf(table, id) ==
    [id |-> id, user_id |-> table[id].user_id,
     event_type |-> table[id].event_type,
     event_time |-> table[id].event_time,
     recorded_at |-> table[id].recorded_at,
     created_at |-> table[id].created_at]

\* The columns the INSERT does not name: created_at takes the time of the
\* insert.
EventRowDefaults(now) == [created_at |-> now]

\* The INSERT of create: the table afterwards and sqlx's answer. A statement
\* the database rejects (an unknown user_id) has the outcome of one that
\* never ran.
InsertEvent(table, event, recorded_at, now) ==
    LET id == FreshId(table)
        after == MapInsert(table, id,
                     [user_id |-> event.user_id,
                      event_type |-> event.event_type,
                      event_time |-> event.event_time,
                      recorded_at |-> recorded_at,
                      created_at |-> EventRowDefaults(now).created_at])
    IN [table |-> after, answer |-> FetchOne({EventOf(after, id)})]

\* The orders in which a set of rows can be listed.
Listings(rows) ==
    {seq \in [1..Cardinality(rows) -> rows] :
         \A i, j \in 1..Cardinality(rows) : i # j => seq[i] # seq[j]}

\* A find_by_user_id that lists the oldest event first.
OrderByEventTimeAsc(rows) ==
    {seq \in Listings(rows) :
         \A i, j \in DOMAIN seq :
             i < j => seq[i].event_time <= seq[j].event_time}

\* `ORDER BY event_time DESC`: every listing the database may return; the
\* order of events of equal event_time is its choice.
OrderByEventTimeDesc(rows) ==
    {seq \in Listings(rows) :
         \A i, j \in DOMAIN seq :
             i < j => seq[i].event_time >= seq[j].event_time}

\* `WHERE user_id = $1` of find_by_user_id
FindByUserIdWhere(table, r, user_id) == table[r].user_id = user_id

EventIdArgs == 1..(Cardinality(DOMAIN events) + 1)

CanCallEvent ==
    ecalls < MaxEventCalls /\ Cardinality(epending) < MaxPending

\* find_by_id
EventFindById(id, fault) ==
    /\ LET rows == {EventOf(events, r) : r \in {x \in DOMAIN events : x = id}}
       IN elast' = [name |-> "find_by_id", id |-> id, fault |-> fault,
                    pre |-> events,
                    repo |-> Try(Transport(fault, FetchOptional(rows)))]
    /\ UNCHANGED <<todoVars, userVars, boundaryVars, events, epending,
                   ecalls, ecreated>>

\* find_by_user_id
EventFindByUserId(user_id, fault) ==
    /\ LET rows == {EventOf(events, r) :
                        r \in {x \in DOMAIN events :
                                   FindByUserIdWhere(events, x, user_id)}}
       IN \E seq \in OrderByEventTimeDesc(rows) :
              elast' = [name |-> "find_by_user_id", user_id |-> user_id,
                        fault |-> fault, pre |-> events,
                        repo |-> Try(Transport(fault, Ok(seq)))]
    /\ UNCHANGED <<todoVars, userVars, boundaryVars, events, epending,
                   ecalls, ecreated>>

\* create, line 89: `let recorded_at = Utc::now();`
CreateEventNow(event) ==
    /\ CanCallEvent
    /\ epending' = epending \cup {[call |-> ecalls + 1, event |-> event,
                                   recorded_at |-> clock]}
    /\ ecalls' = ecalls + 1
    /\ UNCHANGED <<todoVars, userVars, boundaryVars, events, elast, ecreated>>

\* create, lines 91-106: the INSERT runs once the pool hands out a
\* connection, and the call returns.
CreateEventInsert(p, fault) ==
    /\ p \in epending
    /\ LET st == InsertEvent(events, p.event, p.recorded_at, clock)
           res == Try(Transport(fault, st.answer))
       IN /\ events' = Effect(fault, events, st.table)
          /\ elast' = [name |-> "create", event |-> p.event,
                       started |-> p.recorded_at, completed |-> clock,
                       fault |-> fault, pre |-> events, repo |-> res]
          /\ ecreated' = IF res.ok
                         THEN MapInsert(ecreated, res.val.id, res.val)
                         ELSE ecreated
    /\ epending' = epending \ {p}
    /\ UNCHANGED <<todoVars, userVars, boundaryVars, ecalls>>

EventNext ==
    \/ \E id \in EventIdArgs, fault \in ReadFaults : EventFindById(id, fault)
    \/ \E user_id \in EventUserIds, fault \in ReadFaults :
           EventFindByUserId(user_id, fault)
    \/ \E event \in CreateEvents : CreateEventNow(event)
    \/ \E p \in epending, fault \in Faults : CreateEventInsert(p, fault)
    \/ Tick

EventSpec == Init /\ [][EventNext]_vars

(* ---------------- payloads and errors at the boundary ------------------ *)

\* The string of n chars c.
Repeat(c, n) == [i \in 1..n |-> c]

Wide == "U+3042"

\* Titles: empty, blank, short, padded, at and over the limit in one-byte
\* chars, and at the limit and under it in three-byte chars.
Titles ==
    {<<>>, <<" ", " ", " ">>, <<"a">>, <<" ", "a", " ">>,
     Repeat("a", TitleMaxLen), Repeat("a", TitleMaxLen + 1),
     Repeat(Wide, TitleMaxLen), Repeat(Wide, 67)}

\* Descriptions: short, at and over the limit in one-byte chars, and under
\* the limit in three-byte chars.
Descriptions ==
    {<<"x">>, Repeat("x", DescriptionMaxLen),
     Repeat("x", DescriptionMaxLen + 1), Repeat(Wide, 334)}

\* Names and emails of user updates: valid, blank, and over the limit.
Names == {NameA, Blank, Repeat("n", NameMaxLen + 1)}

Emails == {Email1, Blank, NoAt}

\* Names and emails of user creates: the ones above, a name at the limit in
\* one-byte and in three-byte chars, an email over the limit in one-byte
\* chars and one under it in three-byte chars.
CreateNames ==
    Names \cup {Repeat("n", NameMaxLen), Repeat(Wide, NameMaxLen)}

CreateEmails ==
    Emails \cup {Email1 \o Repeat("y", EmailMaxLen - 4),
                 Email1 \o Repeat(Wide, 100)}

\* AppError values: every variant with two different messages.
Messages == {"m1", "m2"}

AppErrors ==
    {InternalServerError(m) : m \in Messages}
        \cup {ValidationError(m) : m \in Messages}
        \cup {Unauthorized(m) : m \in Messages}
        \cup {NotFound(m) : m \in Messages}
        \cup {BadRequest(m) : m \in Messages}

\* Failures of the layers below, by the crate that reports them.
LowerErrors ==
    [layer : {"sqlx"},
     err : {"RowNotFound", "PoolTimedOut", "Io", "Database"}]
        \cup [layer : {"io"}, err : {"NotFound", "UnexpectedEof"}]
        \cup [layer : {"serde_json"}, err : {"Syntax", "Eof"}]

\* What arrives at the boundary.
\* Path ids of the update handlers: 1 is in the store and in the table, 2 is
\* in neither.
PutIds == {1, 2}

Inputs ==
    [kind : {"errors"}, e1 : AppErrors, e2 : AppErrors]
        \cup [kind : {"lower"}, failure : LowerErrors]
        \cup [kind : {"create_todo"},
              payload : [title : Titles,
                         description : OptionOf(Descriptions)]]
        \cup [kind : {"update_todo"},
              payload : [title : OptionOf(Titles),
                         description : OptionOf(Descriptions),
                         completed : OptionOf({TRUE})]]
        \cup [kind : {"update_user"},
              payload : [name : OptionOf(Names), email : OptionOf(Emails),
                         picture : OptionOf({Picture})]]
        \cup [kind : {"create_user"},
              payload : [name : CreateNames, email : CreateEmails,
                         picture : OptionOf({Picture})]]
        \cup [kind : {"put_todo"}, id : PutIds,
              payload : [title : OptionOf(Titles),
                         description : OptionOf(Descriptions),
                         completed : OptionOf({TRUE})]]
        \cup [kind : {"put_user"}, id : PutIds,
              payload : [name : OptionOf(Names), email : OptionOf(Emails),
                         picture : OptionOf({Picture})]]

\* One payload or error has arrived; the store and the table are new.
BoundaryInit ==
    /\ TodoInit
    /\ UserInit
    /\ EventInit
    /\ input \in Inputs
    /\ output = [kind |-> "none"]

Pending(kind) == input.kind = kind /\ output.kind = "none"

\* into_response of two errors.
Respond ==
    /\ Pending("errors")
    /\ output' = [kind |-> "responses",
                  r1 |-> IntoResponse(Err(input.e1)),
                  r2 |-> IntoResponse(Err(input.e2))]
    /\ UNCHANGED <<todoVars, userVars, eventVars, input>>

\* `?` on a failure of a lower layer: the From impl of its error type.
Convert ==
    /\ Pending("lower")
    /\ LET f == input.failure
           e == CASE f.layer = "sqlx" -> FromSqlx(f.err)
                  [] f.layer = "io" -> FromIo(f.err)
                  [] f.layer = "serde_json" -> FromSerdeJson(f.err)
       IN output' = [kind |-> "converted", err |-> e,
                     http |-> IntoResponse(Err(e))]
    /\ UNCHANGED <<todoVars, userVars, eventVars, input>>

\* TodoStore::new and TodoStore::create as one thread alone runs them.
NewStore == [todos |-> <<>>, next_id |-> 1]

StoreCreate(store, title, description) ==
    LET todo == NewTodo(store.next_id, title, description)
    IN [store |-> [todos |-> MapInsert(store.todos, todo.id, todo),
                   next_id |-> store.next_id + 1],
        val |-> todo]

\* create_todo on a new store: POST /api/todos
CreateTodoOnNewStore ==
    /\ Pending("create_todo")
    /\ LET v == MapErrValidation(ValidateCreateTodo(input.payload))
           c == StoreCreate(NewStore, input.payload.title,
                            input.payload.description)
       IN output' = IF ~v.ok
                    THEN [kind |-> "create_todo", verdict |-> v,
                          http |-> IntoResponse(v), store |-> NewStore]
                    ELSE [kind |-> "create_todo", verdict |-> v,
                          http |-> IntoResponse(Ok(c.val)),
                          store |-> c.store]
    /\ UNCHANGED <<todoVars, userVars, eventVars, input>>

\* UpdateTodoRequest::validate as update_todo applies it
ValidateUpdateTodoRequest ==
    /\ Pending("update_todo")
    /\ output' = [kind |-> "update_todo",
                  verdict |->
                      MapErrValidation(ValidateUpdateTodo(input.payload))]
    /\ UNCHANGED <<todoVars, userVars, eventVars, input>>

\* UpdateUserRequest::validate as update_user applies it
ValidateUpdateUserRequest ==
    /\ Pending("update_user")
    /\ output' = [kind |-> "update_user",
                  verdict |-> ValidateUpdateUser(input.payload)]
    /\ UNCHANGED <<todoVars, userVars, eventVars, input>>

\* create_user on an empty users table: POST /api/users
CreateUserOnEmptyTable ==
    /\ Pending("create_user")
    /\ LET v == ValidateCreateUser(input.payload)
           st == RepoCreate(<<>>, input.payload, clock, "none")
       IN output' = IF ~v.ok
                    THEN [kind |-> "create_user", verdict |-> v,
                          called |-> FALSE, http |-> IntoResponse(v),
                          table |-> <<>>]
                    ELSE [kind |-> "create_user", verdict |-> v,
                          called |-> TRUE, http |-> IntoResponse(st.res),
                          table |-> st.table]
    /\ UNCHANGED <<todoVars, userVars, eventVars, input>>

\* update, called by one thread at a time.
StoreUpdate(store, id, title, description, completed) ==
    IF id \in DOMAIN store.todos
    THEN LET todo == WriteCompleted(
                         WriteDescription(
                             WriteTitle(store.todos[id], title), description),
                         completed)
         IN [store |-> [store EXCEPT !.todos[id] = todo], val |-> Some(todo)]
    ELSE [store |-> store, val |-> None]

\* A store that holds one Todo, with id 1.
StoreWithOne == StoreCreate(NewStore, <<"a">>, Some(<<"x">>)).store

\* A users table that holds one user, with id 1.
TableWithOne ==
    RepoCreate(<<>>, [name |-> NameA, email |-> Email1, picture |-> None],
               clock, "none").table

\* An update_todo that looks the Todo up before it validates the payload.
UpdateTodoOnStoreLookupFirst ==
    /\ Pending("put_todo")
    /\ LET v == MapErrValidation(ValidateUpdateTodo(input.payload))
           u == StoreUpdate(StoreWithOne, input.id, input.payload.title,
                            input.payload.description,
                            input.payload.completed)
           found == MapGet(StoreWithOne.todos, input.id)
       IN output' = IF ~IsSome(found)
                    THEN [kind |-> "put_todo", verdict |-> v,
                          consulted |-> TRUE,
                          http |-> IntoResponse(
                                       OkOrNotFound(input.id, found)),
                          store |-> StoreWithOne]
                    ELSE IF ~v.ok
                    THEN [kind |-> "put_todo", verdict |-> v,
                          consulted |-> TRUE, http |-> IntoResponse(v),
                          store |-> StoreWithOne]
                    ELSE [kind |-> "put_todo", verdict |-> v,
                          consulted |-> TRUE,
                          http |-> IntoResponse(
                                       OkOrNotFound(input.id, u.val)),
                          store |-> u.store]
    /\ UNCHANGED <<todoVars, userVars, eventVars, input>>

\* update_todo on a store with one Todo: PUT /api/todos/{id}
UpdateTodoOnStore ==
    /\ Pending("put_todo")
    /\ LET v == MapErrValidation(ValidateUpdateTodo(input.payload))
           u == StoreUpdate(StoreWithOne, input.id, input.payload.title,
                            input.payload.description,
                            input.payload.completed)
       IN output' = IF ~v.ok
                    THEN [kind |-> "put_todo", verdict |-> v,
                          consulted |-> FALSE, http |-> IntoResponse(v),
                          store |-> StoreWithOne]
                    ELSE [kind |-> "put_todo", verdict |-> v,
                          consulted |-> TRUE,
                          http |-> IntoResponse(
                                       OkOrNotFound(input.id, u.val)),
                          store |-> u.store]
    /\ UNCHANGED <<todoVars, userVars, eventVars, input>>

\* update_user on a users table with one user: PUT /api/users/{id}
UpdateUserOnTable ==
    /\ Pending("put_user")
    /\ LET v == ValidateUpdateUser(input.payload)
           st == RepoUpdate(TableWithOne, input.id, input.payload, clock,
                            "none")
       IN output' = IF ~v.ok
                    THEN [kind |-> "put_user", verdict |-> v,
                          consulted |-> FALSE, http |-> IntoResponse(v),
                          table |-> TableWithOne]
                    ELSE [kind |-> "put_user", verdict |-> v,
                          consulted |-> TRUE, http |-> IntoResponse(st.res),
                          table |-> st.table]
    /\ UNCHANGED <<todoVars, userVars, eventVars, input>>

BoundaryNext ==
    \/ Respond
    \/ Convert
    \/ CreateTodoOnNewStore
    \/ ValidateUpdateTodoRequest
    \/ ValidateUpdateUserRequest
    \/ CreateUserOnEmptyTable
    \/ UpdateTodoOnStore
    \/ UpdateUserOnTable

BoundarySpec == BoundaryInit /\ [][BoundaryNext]_vars

(* ------------------------- TodoStore properties ------------------------ *)

\* C1: the ids returned by create calls, however the calls interleave with
\* each other and with update and delete, are pairwise distinct: no id is
\* returned by two create calls.
C1_CreateIdsDistinct == \A id \in DOMAIN returned : returned[id] = 1

\* Two creates hold their ids at once, after a third has returned.
C1_Witness ==
    /\ \A t \in {1, 2} : pc[t] = "c_insert"
    /\ DOMAIN returned # {}

\* The ids of the Todos a read returned.
IdsOf(val) == {todo.id : todo \in val}

\* C2: no get_all or get_by_id returns a Todo whose id was allocated after an
\* id whose Todo had, at the time of the read, never been inserted
\* (allocation and insertion of an id look like one step to readers).
C2_AllocInsertAtomic ==
    last.name \in {"get_all", "get_by_id"} =>
        LET got == IF last.name = "get_all" THEN IdsOf(last.val)
                   ELSE IF IsSome(last.val) THEN {last.id} ELSE {}
        IN \A i, j \in 1..Len(issued) :
               (i < j /\ issued[j] \in got) => issued[i] \in last.seen.inserted

\* C3: the ids handed out by create are 1, 2, 3, ... in allocation order,
\* whatever was updated or deleted in between; no id is issued twice.
C3_IdsIncreaseFromOne == \A k \in 1..Len(issued) : issued[k] = k

\* Id 1 was deleted, the store is empty, and a create has just read id 2.
C3_Witness ==
    /\ 1 \in DOMAIN deleted
    /\ todos = <<>>
    /\ \E t \in Threads : pc[t] = "c_inc" /\ op[t].id = 2

\* C4: get_by_id of an id that a create has returned and that no update or
\* delete has found since yields the Todo with that id, the title and
\* description given to create, and completed = false.
C4_CreateThenGet ==
    (/\ last.name = "get_by_id"
     /\ last.id \in last.seen.inserted
     /\ last.id \notin last.seen.touched)
    => last.val = Some(Todo(last.id, supplied[last.id].title,
                            supplied[last.id].description, FALSE))

\* A get_by_id found a Todo created with a description and not touched since.
C4_Witness ==
    /\ last.name = "get_by_id"
    /\ last.id \in last.seen.inserted
    /\ last.id \notin last.seen.touched
    /\ IsSome(last.val)
    /\ IsSome(supplied[last.id].description)

\* C5: an update that finds its id replaces exactly the provided fields of
\* that Todo, keeps its id and its omitted fields, leaves every other Todo
\* and the key set as they were, and returns the updated Todo; an update
\* that does not find its id returns None and changes nothing.
C5_UpdateFrame ==
    last.name = "update" =>
        IF last.id \in DOMAIN last.pre
        THEN LET old == last.pre[last.id]
                 new == last.post[last.id]
             IN /\ DOMAIN last.post = DOMAIN last.pre
                /\ \A k \in DOMAIN last.pre \ {last.id} :
                       last.post[k] = last.pre[k]
                /\ new.id = old.id
                /\ new.title = IF IsSome(last.title) THEN Unwrap(last.title)
                               ELSE old.title
                /\ new.description = IF IsSome(last.description)
                                     THEN last.description
                                     ELSE old.description
                /\ new.completed = IF IsSome(last.completed)
                                   THEN Unwrap(last.completed)
                                   ELSE old.completed
                /\ last.val = Some(new)
        ELSE last.val = None /\ last.post = last.pre

\* update(id, None, None, Some(true)) on a Todo with a description, not yet
\* completed, beside another Todo.
C5_Witness ==
    /\ last.name = "update"
    /\ last.id \in DOMAIN last.pre
    /\ last.title = None
    /\ last.description = None
    /\ last.completed = Some(TRUE)
    /\ ~last.pre[last.id].completed
    /\ IsSome(last.pre[last.id].description)
    /\ last.post[last.id].completed
    /\ Cardinality(DOMAIN last.pre) = 2

\* C6: update is atomic. Whenever the collection lock is free the map equals
\* the map obtained by applying every create, update and delete in one step
\* (no update is lost), and every get_by_id and get_all returned what that
\* map held (no reader saw part of an update).
C6_UpdateAtomic ==
    /\ todos_lock = Free => todos = abs
    /\ last.name \in {"get_by_id", "get_all"} => last.val = last.abs

\* An update that set only completed has finished on a Todo whose title an
\* earlier update had set: the Todo shows both changes.
C6_Witness ==
    /\ last.name = "update"
    /\ last.id \in DOMAIN last.pre
    /\ last.title = None
    /\ last.completed = Some(TRUE)
    /\ last.pre[last.id].title = <<"b">>
    /\ ~last.pre[last.id].completed
    /\ todos_lock = Free
    /\ todos[last.id].title = <<"b">>
    /\ todos[last.id].completed

\* C7: delete returns true exactly when the id is present, and removes it:
\* an id a delete returned true for is never in the map again, get_by_id of
\* it returns None, and no second delete returns true for it (so of two
\* racing deletes of one present id exactly one returns true).
C7_DeleteOnce ==
    /\ \A id \in DOMAIN deleted : deleted[id] = 1 /\ id \notin DOMAIN todos
    /\ last.name = "delete" =>
           (last.val <=> (/\ last.id \in last.seen.inserted
                          /\ last.id \notin last.seen.deleted))
    /\ (last.name = "get_by_id" /\ last.id \in last.seen.deleted) =>
           last.val = None

\* A second delete of an id returned false after the first returned true.
C7_Witness ==
    /\ last.name = "delete"
    /\ ~last.val
    /\ last.id \in last.seen.deleted

\* C17: a POST /api/todos or PUT /api/todos/{id} answered 400 leaves the
\* collection and the next-id counter exactly as they were before the
\* request, and a payload that fails validation is answered 400 with tag
\* validation_error; so no Todo in the collection has a title validation
\* rejects.
C17_RejectedMutatesNothing ==
    /\ last.name \in {"create_todo", "update_todo"} =>
           /\ last.http.status = 400
           /\ last.http.error = "validation_error"
           /\ last.post = last.pre
    /\ \A id \in DOMAIN todos : CheckTitle(todos[id].title).ok

\* An update with a blank title, a description and completed has been
\* rejected for a Todo that is in the collection, while another thread is
\* inside create: the Todo is as it was and the counter has not moved.
C17_Witness ==
    /\ last.name = "update_todo"
    /\ last.http.status = 400
    /\ last.id \in DOMAIN todos
    /\ IsSome(last.payload.description)
    /\ todos[last.id] = last.pre.todos[last.id]
    /\ ~todos[last.id].completed
    /\ next_id = last.pre.next_id
    /\ \E t \in Threads : pc[t] = "c_insert"

\* C22: get_todo, update_todo (whose payload passed validation) and
\* delete_todo on an id that is not in the store answer 404 with tag
\* not_found and the message "Todo with id {id} not found", and the store is
\* as it was; on an id that is in the store they answer 200.
C22_MissingTodoIs404 ==
    last.name \in {"get_by_id", "update", "delete"} =>
        IF last.id \in DOMAIN last.pre
        THEN last.http.status = 200
        ELSE /\ last.http.status = 404
             /\ last.http.error = "not_found"
             /\ last.http.message = <<"Todo with id ", last.id, " not found">>
             /\ last.post = last.pre

\* An update of an id whose Todo a delete had removed has been answered 404.
C22_Witness ==
    /\ last.name = "update"
    /\ last.id \in DOMAIN deleted
    /\ last.http.status = 404
    /\ last.http.message = TodoNotFoundMsg(last.id)
    /\ last.post = last.pre

\* C26: every key of the collection is below the counter and is the id of
\* the Todo stored under it; every id read from the counter is below the
\* counter once the increment that follows the read is done; the id a create
\* holds between releasing the counter lock and inserting is below the
\* counter and not a key of the collection, so its insert replaces nothing.
C26_CounterAboveKeys ==
    /\ \A k \in DOMAIN todos : k < next_id /\ todos[k].id = k
    /\ \A i \in DOMAIN issued :
           \/ issued[i] < next_id
           \/ \E t \in Threads : pc[t] = "c_inc" /\ op[t].id = issued[i]
    /\ \A t \in Threads :
           pc[t] = "c_insert" =>
               op[t].id < next_id /\ op[t].id \notin DOMAIN todos

\* A create holds id 1 between releasing the counter lock and inserting
\* while the Todo with id 2 is already in the collection.
C26_Witness ==
    /\ \E t \in Threads : pc[t] = "c_insert" /\ op[t].id = 1
    /\ 2 \in DOMAIN todos
    /\ next_id = 3

LiveIn(table, id) == id \in DOMAIN table /\ table[id].deleted_at = None

\* C8: delete is not idempotent. It returns Ok only for an id whose row is
\* live; when the statement runs and is answered, it returns Ok (200) if the
\* row is live and NotFound (404, not_found) if the id is unknown or the row
\* already soft-deleted; so no id has two deletes that returned Ok.
C8_DeleteNotIdempotent ==
    /\ \A id \in DOMAIN udeleted : udeleted[id] = 1
    /\ ulast.name = "delete" =>
         /\ ulast.repo.ok => LiveIn(ulast.pre, ulast.id)
         /\ ulast.fault = "none" =>
              IF LiveIn(ulast.pre, ulast.id)
              THEN ulast.repo.ok /\ ulast.http.status = 200
              ELSE /\ ulast.repo = Err(NotFound(UserNotFoundMsg(ulast.id)))
                   /\ ulast.http.status = 404
                   /\ ulast.http.error = "not_found"

\* A delete of an id that an earlier delete returned Ok for reports NotFound.
C8_Witness ==
    /\ ulast.name = "delete"
    /\ ulast.fault = "none"
    /\ ulast.id \in DOMAIN udeleted
    /\ ~ulast.repo.ok
    /\ ulast.repo.err.kind = "NotFound"

\* C9: soft-delete visibility. A row for which delete returned Ok stays in
\* the table with deleted_at set; find_by_id returns the user of a live row
\* and None otherwise; find_by_email returns the user of the live row with
\* that email and None when there is none, in particular for the email of a
\* soft-deleted row.
C9_SoftDeleteVisibility ==
    /\ \A id \in DOMAIN udeleted :
           id \in DOMAIN users /\ users[id].deleted_at # None
    /\ (ulast.name = "find_by_id" /\ ulast.fault = "none") =>
           ulast.repo = Ok(IF LiveIn(ulast.pre, ulast.id)
                           THEN Some(UserOf(ulast.pre, ulast.id)) ELSE None)
    /\ (ulast.name = "find_by_email" /\ ulast.fault = "none") =>
           LET rows == {r \in DOMAIN ulast.pre :
                            ulast.pre[r].email = ulast.email}
           IN /\ (\E r \in rows : ulast.pre[r].deleted_at # None) =>
                     ulast.repo = Ok(None)
              /\ \A r \in rows :
                     ulast.pre[r].deleted_at = None =>
                         ulast.repo = Ok(Some(UserOf(ulast.pre, r)))
              /\ rows = {} => ulast.repo = Ok(None)

\* find_by_email of the email of a user whose delete returned Ok finds
\* nothing, and the row is still in the table.
C9_Witness ==
    /\ ulast.name = "find_by_email"
    /\ ulast.fault = "none"
    /\ ulast.repo = Ok(None)
    /\ \E r \in DOMAIN udeleted :
           r \in DOMAIN users /\ users[r].email = ulast.email

\* C10: an update that passes validation, whose statement runs and is
\* answered, on an id with no live row fails with NotFound, and PUT
\* /api/users/{id} answers 404 with tag not_found.
C10_UpdateMissingIsNotFound ==
    (/\ ulast.name = "update"
     /\ ulast.called
     /\ ulast.fault = "none"
     /\ ~LiveIn(ulast.pre, ulast.id))
    => /\ ~ulast.repo.ok
       /\ ulast.repo.err.kind = "NotFound"
       /\ ulast.http.status = 404
       /\ ulast.http.error = "not_found"

\* C11: a successful update of a user changes, in the row of that id, the
\* fields the payload supplies to the supplied values and nothing else but
\* updated_at: omitted fields, created_at and deleted_at keep their values,
\* the row was live, no row is added or removed, every other row is
\* unchanged, and the User returned shows the row as it now is. An update
\* the database answers with an error changes nothing.
C11_UpdateFrame ==
    (ulast.name = "update" /\ ulast.called) =>
        LET pre == ulast.pre
            id == ulast.id
            p == ulast.payload
        IN /\ ulast.repo.ok =>
                /\ LiveIn(pre, id)
                /\ DOMAIN users = DOMAIN pre
                /\ \A r \in DOMAIN pre : r # id => users[r] = pre[r]
                /\ users[id].name =
                       IF IsSome(p.name) THEN Unwrap(p.name) ELSE pre[id].name
                /\ users[id].email =
                       IF IsSome(p.email) THEN Unwrap(p.email)
                       ELSE pre[id].email
                /\ users[id].picture =
                       IF IsSome(p.picture) THEN p.picture
                       ELSE pre[id].picture
                /\ users[id].created_at = pre[id].created_at
                /\ users[id].deleted_at = pre[id].deleted_at
                /\ ulast.repo.val = UserOf(users, id)
                /\ ulast.repo.val.id = id
           /\ (ulast.fault = "none" /\ ~ulast.repo.ok) => users = pre

\* An update supplying only a name has succeeded on a user that has a
\* picture, next to another user: the name is the new one, email and picture
\* are the old ones.
C11_Witness ==
    /\ ulast.name = "update"
    /\ ulast.called
    /\ ulast.repo.ok
    /\ IsSome(ulast.payload.name)
    /\ ulast.payload.email = None
    /\ ulast.payload.picture = None
    /\ users[ulast.id].name = NameB
    /\ ulast.pre[ulast.id].name = NameA
    /\ users[ulast.id].email = ulast.pre[ulast.id].email
    /\ IsSome(users[ulast.id].picture)
    /\ users[ulast.id].picture = ulast.pre[ulast.id].picture
    /\ Cardinality(DOMAIN users) = 2

\* C12: every successful update leaves the user's updated_at strictly later
\* than it was before the update.
C12_UpdatedAtAdvances ==
    (ulast.name = "update" /\ ulast.called /\ ulast.repo.ok) =>
        users[ulast.id].updated_at > ulast.pre[ulast.id].updated_at

\* C13: a create that passes validation, whose statement runs and is
\* answered, with an email some row of the table already has, fails with an
\* error, and neither the error nor the response sent is the one the same
\* call produces when the connection is lost.
C13_ConflictDistinguishable ==
    (/\ ulast.name = "create"
     /\ ulast.called
     /\ ulast.fault = "none"
     /\ \E r \in DOMAIN ulast.pre :
            ulast.pre[r].email = ulast.payload.email)
    => LET lost == RepoCreate(ulast.pre, ulast.payload, clock,
                              "request_lost").res
       IN /\ ~ulast.repo.ok
          /\ ulast.repo # lost
          /\ ulast.http # IntoResponse(lost)

\* C25: an update of a live user whose payload omits name, email and
\* picture passes validation and, when the database answers, succeeds (200):
\* name, email and picture are as before and updated_at is the server's time
\* at the update.
C25_EmptyUpdateRefreshes ==
    (/\ ulast.name = "update"
     /\ ulast.payload = [name |-> None, email |-> None, picture |-> None]
     /\ ulast.fault = "none"
     /\ LiveIn(ulast.pre, ulast.id))
    => /\ ulast.called
       /\ ulast.repo.ok
       /\ ulast.http.status = 200
       /\ users[ulast.id].name = ulast.pre[ulast.id].name
       /\ users[ulast.id].email = ulast.pre[ulast.id].email
       /\ users[ulast.id].picture = ulast.pre[ulast.id].picture
       /\ users[ulast.id].updated_at = ulast.now
       /\ ulast.repo.val.updated_at = ulast.now

\* An update without fields has succeeded on a user created at an earlier
\* clock reading: updated_at has moved to the later reading, the picture is
\* still there.
C25_Witness ==
    /\ ulast.name = "update"
    /\ ulast.payload = [name |-> None, email |-> None, picture |-> None]
    /\ ulast.called
    /\ ulast.repo.ok
    /\ users[ulast.id].updated_at > ulast.pre[ulast.id].updated_at
    /\ users[ulast.id].updated_at = ulast.now
    /\ IsSome(users[ulast.id].picture)
    /\ users[ulast.id].created_at = ulast.pre[ulast.id].created_at

(* ------------------------- boundary properties ------------------------- *)

\* The status and tag error.rs documents for each variant of AppError.
WireOf(kind) ==
    CASE kind = "InternalServerError" ->
             [status |-> 500, error |-> "internal_server_error"]
      [] kind = "ValidationError" ->
             [status |-> 400, error |-> "validation_error"]
      [] kind = "Unauthorized" -> [status |-> 401, error |-> "unauthorized"]
      [] kind = "NotFound" -> [status |-> 404, error |-> "not_found"]
      [] kind = "BadRequest" -> [status |-> 400, error |-> "bad_request"]

\* C14: the response to an AppError has exactly a status and the body fields
\* error and message; status and error are the pair fixed for the variant
\* (500 internal_server_error, 400 validation_error, 401 unauthorized, 404
\* not_found, 400 bad_request); for the four variants other than
\* InternalServerError the message is the carried message.
C14_ErrorMapping ==
    output.kind = "responses" =>
        \A p \in {<<input.e1, output.r1>>, <<input.e2, output.r2>>} :
            LET e == p[1]
                r == p[2]
            IN /\ DOMAIN r = {"status", "error", "message"}
               /\ r.status = WireOf(e.kind).status
               /\ r.error = WireOf(e.kind).error
               /\ e.kind # "InternalServerError" => r.message = e.msg

\* A BadRequest and a ValidationError carrying the same message have been
\* answered: both with 400, under different tags.
C14_Witness ==
    /\ output.kind = "responses"
    /\ input.e1.kind = "BadRequest"
    /\ input.e2.kind = "ValidationError"
    /\ input.e1.msg = input.e2.msg
    /\ output.r1.status = 400
    /\ output.r2.status = 400
    /\ output.r1.error = "bad_request"
    /\ output.r2.error = "validation_error"
    /\ output.r1.message = input.e1.msg

\* C15: two InternalServerError values, whatever messages they carry, get
\* the same response, whose message is "An internal server error occurred".
C15_NoInternalDetail ==
    (/\ output.kind = "responses"
     /\ input.e1.kind = "InternalServerError"
     /\ input.e2.kind = "InternalServerError")
    => /\ output.r1 = output.r2
       /\ output.r1.message = "An internal server error occurred"
       /\ output.r1.status = 500
       /\ output.r1.error = "internal_server_error"

\* Two InternalServerError values with different messages have been answered.
C15_Witness ==
    /\ output.kind = "responses"
    /\ input.e1.kind = "InternalServerError"
    /\ input.e2.kind = "InternalServerError"
    /\ input.e1.msg # input.e2.msg
    /\ output.r1 = output.r2

\* C16: every sqlx error and every I/O error converts to an
\* InternalServerError (answered 500) and every serde_json error to a
\* BadRequest (answered 400): each failure to one variant, fixed by its layer.
C16_ConversionsTotal ==
    output.kind = "converted" =>
        /\ output.err.kind =
               IF input.failure.layer = "serde_json" THEN "BadRequest"
               ELSE "InternalServerError"
        /\ output.http.status =
               IF input.failure.layer = "serde_json" THEN 400 ELSE 500

\* sqlx's RowNotFound has been converted, to an InternalServerError.
C16_Witness ==
    /\ output.kind = "converted"
    /\ input.failure = [layer |-> "sqlx", err |-> "RowNotFound"]
    /\ output.err.kind = "InternalServerError"

\* str.chars().count(): the length in characters
CharCount(s) == Len(s)

\* A description that is absent or within the limit however it is measured.
DescriptionWithinLimit(description) ==
    description = None \/ StrLen(Unwrap(description)) <= DescriptionMaxLen

\* C18: POST /api/todos with a title of whitespace only is answered 400, with
\* a title of 201 characters 400, and with a non-blank title of exactly 200
\* characters (and an acceptable description) 200, the Todo with that title
\* being in the store afterwards.
C18_TitleBoundaries ==
    output.kind = "create_todo" =>
        LET title == input.payload.title
        IN /\ (title # <<>> /\ \A i \in DOMAIN title : IsWhitespace(title[i]))
                  => output.http.status = 400
           /\ CharCount(title) = TitleMaxLen + 1 => output.http.status = 400
           /\ (/\ Trim(title) # <<>>
               /\ CharCount(title) = TitleMaxLen
               /\ DescriptionWithinLimit(input.payload.description))
              => /\ output.http.status = 200
                 /\ 1 \in DOMAIN output.store.todos
                 /\ output.store.todos[1].title = title

\* The verdict the rules of the Task payloads give, lengths in characters.
TitleRule(title) == Trim(title) # <<>> /\ CharCount(title) <= TitleMaxLen

DescriptionRule(description) ==
    description = None \/ CharCount(Unwrap(description)) <= DescriptionMaxLen

\* C19: validation of a create or update Task payload succeeds exactly when
\* the title (if the payload has one) is non-empty after trimming and at
\* most 200 characters long and the description (if it has one) is at most
\* 1000 characters long.
C19_LimitsInCharacters ==
    /\ output.kind = "create_todo" =>
           (output.verdict.ok <=>
                /\ TitleRule(input.payload.title)
                /\ DescriptionRule(input.payload.description))
    /\ output.kind = "update_todo" =>
           (output.verdict.ok <=>
                /\ IsSome(input.payload.title) =>
                       TitleRule(Unwrap(input.payload.title))
                /\ DescriptionRule(input.payload.description))

\* The verdict on one field: on the payload that has this field alone.
OnlyField(payload, field) ==
    [f \in DOMAIN payload |-> IF f = field THEN payload[f] ELSE None]

\* C20: an update payload, of a Task or of a User, with every field omitted
\* passes validation, and any update payload passes exactly when each field
\* it has passes on its own, whatever other fields are omitted.
C20_ValidatedOnlyIfPresent ==
    /\ output.kind = "update_todo" =>
           LET p == input.payload
           IN /\ (\A f \in DOMAIN p : p[f] = None) => output.verdict.ok
              /\ output.verdict.ok <=>
                     \A f \in {g \in DOMAIN p : p[g] # None} :
                         ValidateUpdateTodo(OnlyField(p, f)).ok
    /\ output.kind = "update_user" =>
           LET p == input.payload
           IN /\ (\A f \in DOMAIN p : p[f] = None) => output.verdict.ok
              /\ output.verdict.ok <=>
                     \A f \in {g \in DOMAIN p : p[g] # None} :
                         ValidateUpdateUser(OnlyField(p, f)).ok

\* An update Task payload that omits every field has passed validation.
C20_Witness ==
    /\ output.kind = "update_todo"
    /\ input.payload =
           [title |-> None, description |-> None, completed |-> None]
    /\ output.verdict.ok

\* The rules of the User payloads, lengths in characters.
NameRule(name) == Trim(name) # <<>> /\ CharCount(name) <= NameMaxLen

EmailRule(email) ==
    /\ Trim(email) # <<>>
    /\ CharCount(email) <= EmailMaxLen
    /\ Contains(email, "@")
    /\ Contains(email, ".")

\* C21: POST /api/users passes validation exactly when the name is non-empty
\* after trimming and at most 100 characters long and the email is non-empty
\* after trimming, at most 255 characters long and contains '@' and '.'; a
\* payload that does not is answered with a ValidationError (400), the
\* repository is not called and the table has no new row; one that does
\* reaches the repository.
C21_UserCreateRules ==
    output.kind = "create_user" =>
        /\ output.verdict.ok <=>
               /\ NameRule(input.payload.name)
               /\ EmailRule(input.payload.email)
        /\ ~output.verdict.ok =>
               /\ output.verdict.err.kind = "ValidationError"
               /\ output.http.status = 400
               /\ ~output.called
               /\ output.table = <<>>
        /\ output.verdict.ok => output.called /\ DOMAIN output.table = {1}

(* -------------------- AttendanceEventRepository properties ------------- *)

\* C23: the recorded_at of an event create returned, and of its row, is the
\* reading of the server's clock when the insert completed.
C23_RecordedAtCompletion ==
    (elast.name = "create" /\ elast.repo.ok) =>
        /\ elast.repo.val.recorded_at = elast.completed
        /\ events[elast.repo.val.id].recorded_at = elast.completed

\* C24: every event a create returned is in the table with its six fields as
\* returned, and find_by_user_id, when the database answers, returns each
\* event of that user once and no other, by event_time descending.
C24_AppendOnly ==
    /\ \A id \in DOMAIN ecreated :
           id \in DOMAIN events /\ EventOf(events, id) = ecreated[id]
    /\ (elast.name = "find_by_user_id" /\ elast.fault = "none") =>
           /\ elast.repo.ok
           /\ LET seq == elast.repo.val
                  mine == {r \in DOMAIN elast.pre :
                               elast.pre[r].user_id = elast.user_id}
              IN /\ Len(seq) = Cardinality(mine)
                 /\ {seq[i] : i \in DOMAIN seq} =
                        {EventOf(elast.pre, r) : r \in mine}
                 /\ \A i, j \in DOMAIN seq :
                        i < j => seq[i].event_time >= seq[j].event_time

\* find_by_user_id has returned two events of one user, the later one first,
\* which was created first.
C24_Witness ==
    /\ elast.name = "find_by_user_id"
    /\ elast.repo.ok
    /\ Len(elast.repo.val) = 2
    /\ elast.repo.val[1].event_time > elast.repo.val[2].event_time
    /\ elast.repo.val[1].id < elast.repo.val[2].id
    /\ \A id \in DOMAIN ecreated : EventOf(events, id) = ecreated[id]

\* ---------------------------------------------------------------------------
\* UserRepository properties: soft-deleted rows
\* ---------------------------------------------------------------------------

\* The columns of the rows of a table that carry a deletion time.
Deleted(table) == {r \in DOMAIN table : table[r].deleted_at # None}

\* C28: a soft-deleted user row is frozen. Once deleted_at is set on a row, no
\* step of update or delete, in any interleaving, changes a column of it: the
\* row stays in the table with the same name, email, picture, updated_at and
\* deleted_at. An update that reaches the database after the delete of the
\* same user fails and leaves the table as it was; one that reaches it before
\* the delete has written all of its columns.
C28_DeletedRowFrozen ==
    /\ [][\A r \in Deleted(users) :
              r \in DOMAIN users' /\ users'[r] = users[r]]_vars
    /\ []((/\ ulast.name = "update"
           /\ ulast.called
           /\ ulast.id \in Deleted(ulast.pre))
          => /\ ~ulast.repo.ok
             /\ users = ulast.pre)
    /\ []((/\ ulast.name = "update"
           /\ ulast.called
           /\ ulast.fault = "none"
           /\ LiveIn(ulast.pre, ulast.id))
          => \/ /\ ulast.repo.ok
                /\ users[ulast.id].name
                       = Coalesce(ulast.payload.name, ulast.pre[ulast.id].name)
                /\ users[ulast.id].email
                       = Coalesce(ulast.payload.email,
                                  ulast.pre[ulast.id].email)
                /\ users[ulast.id].updated_at = ulast.now
                /\ users[ulast.id].deleted_at = None
             \/ /\ ~ulast.repo.ok
                /\ users = ulast.pre)

\* An update with a new name has reached the database after the delete of the
\* same user: it has failed, and the row still has its old name and its
\* deletion time.
C28_Witness ==
    /\ ulast.name = "update"
    /\ ulast.called
    /\ ulast.fault = "none"
    /\ ulast.id \in Deleted(ulast.pre)
    /\ IsSome(ulast.payload.name)
    /\ Unwrap(ulast.payload.name) # ulast.pre[ulast.id].name
    /\ ~ulast.repo.ok
    /\ users[ulast.id] = ulast.pre[ulast.id]
    /\ ulast.now > Unwrap(users[ulast.id].deleted_at)

\* ---------------------------------------------------------------------------
\* TodoStore properties: the description under update
\* ---------------------------------------------------------------------------

\* C30: a description can be set or replaced but never cleared. No step of
\* any call turns a present description of a Todo that stays in the store
\* into an absent one; a finished update with the description omitted has
\* kept the one the Todo had, and one with a description provided has put
\* that description in its place.
C30_DescriptionNeverCleared ==
    /\ [][\A id \in DOMAIN todos \cap DOMAIN todos' :
              IsSome(todos[id].description)
                  => IsSome(todos'[id].description)]_vars
    /\ []((last.name = "update" /\ last.id \in DOMAIN last.pre)
          => /\ last.description = None
                 => last.post[last.id].description
                        = last.pre[last.id].description
             /\ IsSome(last.description)
                 => last.post[last.id].description = last.description
             /\ IsSome(last.pre[last.id].description)
                 => IsSome(last.post[last.id].description))

\* An update that omits the description has finished on a Todo that has one:
\* the title is the new one and the description is still there.
C30_Witness ==
    /\ last.name = "update"
    /\ last.id \in DOMAIN last.pre
    /\ last.description = None
    /\ IsSome(last.title)
    /\ Unwrap(last.title) # last.pre[last.id].title
    /\ IsSome(last.pre[last.id].description)
    /\ last.id \in DOMAIN todos
    /\ todos[last.id].title = Unwrap(last.title)
    /\ todos[last.id].description = last.pre[last.id].description

\* ---------------------------------------------------------------------------
\* Boundary properties: the update handlers
\* ---------------------------------------------------------------------------

\* C29: in update_todo and update_user, validation precedes the existence
\* check. A payload that fails validation is answered 400 with tag
\* validation_error, for an id that exists as for one that does not, never
\* 404; the store or the repository is not called, and holds what it held.
C29_ValidationBeforeLookup ==
    /\ (output.kind = "put_todo" /\ ~output.verdict.ok)
       => /\ output.http.status = 400
          /\ output.http.error = "validation_error"
          /\ output.http.status # 404
          /\ ~output.consulted
          /\ output.store = StoreWithOne
    /\ (output.kind = "put_user" /\ ~output.verdict.ok)
       => /\ output.http.status = 400
          /\ output.http.error = "validation_error"
          /\ output.http.status # 404
          /\ ~output.consulted
          /\ output.table = TableWithOne
    /\ (output.kind \in {"put_todo", "put_user"} /\ output.verdict.ok)
       => output.consulted

\* update_todo with a blank title for an id that is not in the store has
\* been answered 400.
C29_Witness ==
    /\ output.kind = "put_todo"
    /\ input.id \notin DOMAIN StoreWithOne.todos
    /\ input.payload.title = Some(<<" ", " ", " ">>)
    /\ ~output.verdict.ok
    /\ output.http.status = 400
    /\ ~output.consulted

====
